---- MODULE Spec2Model ----
(***************************************************************************)
(* Model of get_1m_interval_data.py: one run of main() (candle fetch,      *)
(* candle builder, trade window collector, candle-trade aggregator, CSV    *)
(* write, S3 upload), with the Gemini endpoints as the environment.        *)
(*                                                                         *)
(* Data frames are sequences of records.  Only the columns that decide     *)
(* control flow or the join are kept (open/close epoch, trade count, tid,  *)
(* timestampms); price and volume columns are copied through by the code   *)
(* and are left out.  Python's None is the record with ok = FALSE.         *)
(***************************************************************************)
EXTENDS Integers, Sequences, FiniteSets, TLC

VARIABLES
    pc,                       \* position of the run in main()
    exc,                      \* the uncaught exception that ended the run, "" if none
    log,                      \* messages written through logging, in order
    time_window,              \* main: time_window
    trades_api_limit,         \* main: trades_api_limit
    candle_data,              \* main: candle_data (result of fetch_data)
    df_candle,                \* main: df_candle
    candle_oldest_open_time,  \* main: candle_oldest_open_time
    candle_recent_open_time,  \* main: candle_recent_open_time
    history,                  \* exchange: timestampms of every trade, tid = position
    anchor_limit,             \* exchange: page size of a request without limit_trades
    contiguous,               \* exchange: pages are the oldest trades past the cursor
    start_time,               \* prepare_trade_data: start_time
    end_time,                 \* prepare_trade_data: end_time
    tid,                      \* prepare_trade_data: tid
    current_data,             \* prepare_trade_data: current_data
    trade_data,               \* prepare_trade_data: trade_data, then df_trades
    requests,                 \* every request issued to the trade endpoint, in order
    pages,                    \* every answer of the trade endpoint, in order
    df_final,                 \* main: df_final
    csv_written,              \* candle_min_final.csv exists
    upload_attempted          \* aws_utils.upload_file_to_s3 was called

vars == <<pc, exc, log, time_window, trades_api_limit, candle_data, df_candle,
          candle_oldest_open_time, candle_recent_open_time, history, anchor_limit,
          contiguous, start_time, end_time, tid, current_data, trade_data,
          requests, pages, df_final, csv_written, upload_attempted>>

----------------------------------------------------------------------------
(* Bounds of the model *)

\* minutes on the time axis: candle opens are 0, 60000, ..., MaxMinute * 60000
MaxMinute == 1
\* longest raw candle list handed to the candle builder
MaxCandles == 3
\* largest window size (main sets 10; the spec makes it configurable)
MaxWindow == 2
\* most trades in the exchange's history
MaxTrades == 3
\* largest page size (main sets 500; the spec makes it configurable)
MaxLimit == 2

\* length of one candle in milliseconds
CandleMs == 60000

----------------------------------------------------------------------------
(* Values *)

Min(a, b) == IF a <= b THEN a ELSE b

SeqsUpTo(S, n) == UNION {[1..k -> S] : k \in 0..n}

\* fetch_data's failure sentinel, and a successful JSON body
None == [ok |-> FALSE, body |-> <<>>]
Json(body) == [ok |-> TRUE, body |-> body]

\* an unset cell and a set cell of the no_of_trades column
Unset == <<>>
Cell(n) == <<n>>

\* minute-aligned candle open times
MinuteGrid == {k * CandleMs : k \in 0..MaxMinute}
\* timestamps: the first and the last millisecond of every minute
TimeGrid == MinuteGrid \cup {t + CandleMs - 1 : t \in MinuteGrid}

RawRow(t) == [candle_open_time_epoch |-> t]
Trade(i, ts) == [tid |-> i, timestampms |-> ts]

IsSortedDesc(s) == \A i \in 1..(Len(s) - 1) : s[i] > s[i + 1]
IsNonDecreasing(s) == \A i \in 1..(Len(s) - 1) : s[i] <= s[i + 1]

\* what the candle endpoint can answer: minute candles, newest first (gaps allowed)
CandleBodies ==
    {[i \in 1..Len(s) |-> RawRow(s[i])] :
        s \in {q \in SeqsUpTo(MinuteGrid, MaxCandles) : IsSortedDesc(q)}}

\* trade histories: ids increase with time, timestamps may repeat
Histories == {h \in SeqsUpTo(TimeGrid, MaxTrades) : IsNonDecreasing(h)}

----------------------------------------------------------------------------
(* prepare_candle_data *)

\* EnrichRow with the close time two candle lengths after the open time
EnrichRowTwoMinutes(r) ==
    [candle_open_time_epoch  |-> r.candle_open_time_epoch,
     no_of_trades            |-> Unset,
     candle_close_time_epoch |-> r.candle_open_time_epoch + 2 * CandleMs]

\* the derived columns of one candle row
EnrichRow(r) ==
    [candle_open_time_epoch  |-> r.candle_open_time_epoch,
     no_of_trades            |-> Unset,
     candle_close_time_epoch |-> r.candle_open_time_epoch + CandleMs]

\* FrameHead taking the last n rows, as DataFrame.tail(n) would
FrameTail(s, n) == SubSeq(s, Len(s) - Min(n, Len(s)) + 1, Len(s))

\* DataFrame.head(n), n >= 0
FrameHead(s, n) == SubSeq(s, 1, Min(n, Len(s)))

prepare_candle_data(data, window) ==
    IF ~data.ok
    THEN None
    ELSE Json(FrameHead([i \in 1..Len(data.body) |-> EnrichRow(data.body[i])], window))

----------------------------------------------------------------------------
(* prepare_one_min_candle_data *)

\* InInterval with the close time included
InIntervalClosed(t, candle) ==
    /\ t.timestampms >= candle.candle_open_time_epoch
    /\ t.timestampms <= candle.candle_close_time_epoch

\* the boolean mask of the join: open <= timestampms < close
InInterval(t, candle) ==
    /\ t.timestampms >= candle.candle_open_time_epoch
    /\ t.timestampms < candle.candle_close_time_epoch

TradesInInterval(candle, df_trades) ==
    SelectSeq(df_trades, LAMBDA t : InInterval(t, candle))

\* the iterrows loop: every row gets the length of its filtered frame
SetTradeCounts(rows, df_trades) ==
    [i \in 1..Len(rows) |->
        [rows[i] EXCEPT !.no_of_trades = Cell(Len(TradesInInterval(rows[i], df_trades)))]]

\* column selection and renaming
FinalRow(r) ==
    ("No of Trades" :> r.no_of_trades)
        @@ ("Candle Open Time" :> r.candle_open_time_epoch)
        @@ ("Candle Close Time" :> r.candle_close_time_epoch)

FinalFrame(rows) == [i \in 1..Len(rows) |-> FinalRow(rows[i])]

----------------------------------------------------------------------------
(* The trade endpoint *)

\* newest first: descending tid
SortDesc(S) == CHOOSE s \in [1..Cardinality(S) -> S] : IsSortedDesc(s)

PageOf(h, S) == [i \in 1..Cardinality(S) |-> Trade(SortDesc(S)[i], h[SortDesc(S)[i]])]

\* the n oldest trades of S
Oldest(S, n) == {i \in S : Cardinality({j \in S : j < i}) < n}

\* the pages a request with candidate trades cand may be answered with
PossiblePages(h, cand, limit, contig) ==
    IF cand = {}
    THEN {<<>>}
    ELSE IF contig
         THEN {PageOf(h, Oldest(cand, limit))}
         ELSE {PageOf(h, S) :
                  S \in {X \in SUBSET cand : X # {} /\ Cardinality(X) <= limit}}

\* ?timestamp=ts : trades at or after ts
AnchorPages(h, ts, limit, contig) ==
    PossiblePages(h, {i \in DOMAIN h : h[i] >= ts}, limit, contig)

\* ?since_tid=t&limit_trades=limit : trades with a greater id
SincePages(h, t, limit, contig) ==
    PossiblePages(h, {i \in DOMAIN h : i > t}, limit, contig)

\* fetch_data: the parsed body, or None after logging the error
FetchLog(resp) == IF resp.ok THEN <<>> ELSE <<"Request failed">>

----------------------------------------------------------------------------
(* prepare_trade_data *)

\* NextCursor that never advances
NextCursorStuck(cursor, page) == cursor

\* NextCursor taking the last (oldest) trade of the page
NextCursorOldest(cursor, page) == IF Len(page) # 0 THEN page[Len(page)].tid ELSE cursor

\* tid = page[0]["tid"]
NextCursor(cursor, page) == IF Len(page) # 0 THEN page[1].tid ELSE cursor

\* end_time = page[0]["timestampms"]
NextEndTime(end, page) == IF Len(page) # 0 THEN page[1].timestampms ELSE end

\* trade_data.extend(page)
Extend(acc, page) == acc \o page

\* while end_time > start_time and len(current_data) != 0
LoopCondition(start, end, current) == end > start /\ Len(current) # 0

\* no run of the collector asks for more pages than this
MaxRequests == MaxTrades + 2

----------------------------------------------------------------------------
(* main: the candle window *)

\* WindowBounds that lets an absent frame through with an empty window
WindowBoundsLenient(df, window) ==
    IF ~df.ok \/ window < 1 \/ window > Len(df.body)
    THEN [exc |-> "", oldest |-> 0, recent |-> 0]
    ELSE [exc    |-> "",
          oldest |-> df.body[window].candle_open_time_epoch,
          recent |-> df.body[1].candle_open_time_epoch]

\* df_candle.loc[time_window-1, ...] and df_candle.loc[0, ...]: None has no .loc,
\* and a label outside the index 0..len-1 raises KeyError
WindowBounds(df, window) ==
    IF ~df.ok
    THEN [exc |-> "AttributeError", oldest |-> 0, recent |-> 0]
    ELSE IF window < 1 \/ window > Len(df.body)
         THEN [exc |-> "KeyError", oldest |-> 0, recent |-> 0]
         ELSE [exc    |-> "",
               oldest |-> df.body[window].candle_open_time_epoch,
               recent |-> df.body[1].candle_open_time_epoch]

----------------------------------------------------------------------------
(* The run *)

Blank ==
    /\ exc = ""
    /\ log = <<>>
    /\ candle_data = None
    /\ df_candle = None
    /\ candle_oldest_open_time = 0
    /\ candle_recent_open_time = 0
    /\ history = <<>>
    /\ anchor_limit = 1
    /\ contiguous = TRUE
    /\ start_time = 0
    /\ end_time = 0
    /\ tid = 0
    /\ current_data = <<>>
    /\ trade_data = <<>>
    /\ requests = <<>>
    /\ pages = <<>>
    /\ df_final = <<>>
    /\ csv_written = FALSE
    /\ upload_attempted = FALSE

Init ==
    /\ pc = "fetch_candles"
    /\ time_window \in 1..MaxWindow
    /\ trades_api_limit \in 1..MaxLimit
    /\ Blank

\* candle_data = fetch_data(one_min_candle_url)
FetchCandles ==
    /\ pc = "fetch_candles"
    /\ \E resp \in {None} \cup {Json(b) : b \in CandleBodies} :
          /\ candle_data' = resp
          /\ log' = log \o FetchLog(resp)
    /\ pc' = "prepare_candles"
    /\ UNCHANGED <<exc, time_window, trades_api_limit, df_candle,
                   candle_oldest_open_time, candle_recent_open_time, history,
                   anchor_limit, contiguous, start_time, end_time, tid,
                   current_data, trade_data, requests, pages, df_final,
                   csv_written, upload_attempted>>

\* df_candle = prepare_candle_data(data=candle_data, time_window=time_window)
PrepareCandles ==
    /\ pc = "prepare_candles"
    /\ df_candle' = prepare_candle_data(candle_data, time_window)
    /\ log' = IF candle_data.ok THEN log ELSE Append(log, "No data in candle dataframe")
    /\ pc' = "extract_window"
    /\ UNCHANGED <<exc, time_window, trades_api_limit, candle_data,
                   candle_oldest_open_time, candle_recent_open_time, history,
                   anchor_limit, contiguous, start_time, end_time, tid,
                   current_data, trade_data, requests, pages, df_final,
                   csv_written, upload_attempted>>

\* candle_oldest_open_time = ..., candle_recent_open_time = ...
ExtractWindow ==
    /\ pc = "extract_window"
    /\ LET w == WindowBounds(df_candle, time_window) IN
          /\ exc' = w.exc
          /\ pc' = IF w.exc = "" THEN "trade_anchor" ELSE "crashed"
          /\ candle_oldest_open_time' = w.oldest
          /\ candle_recent_open_time' = w.recent
    /\ UNCHANGED <<log, time_window, trades_api_limit, candle_data, df_candle,
                   history, anchor_limit, contiguous, start_time, end_time, tid,
                   current_data, trade_data, requests, pages, df_final,
                   csv_written, upload_attempted>>

\* prepare_trade_data up to the loop: the anchor request and the first cursor.
\* The exchange's history and paging are fixed here, when first observed.
TradeAnchor ==
    /\ pc = "trade_anchor"
    /\ start_time' = candle_oldest_open_time
    /\ end_time' = candle_recent_open_time
    /\ history' \in Histories
    /\ anchor_limit' \in 1..MaxLimit
    /\ contiguous' \in BOOLEAN
    /\ \E resp \in {None} \cup
                    {Json(p) : p \in AnchorPages(history', candle_oldest_open_time,
                                                 anchor_limit', contiguous')} :
          /\ requests' = <<[param |-> "timestamp", value |-> candle_oldest_open_time,
                            limit_trades |-> Unset]>>
          /\ pages' = <<resp>>
          /\ log' = log \o FetchLog(resp)
          /\ trade_data' = resp.body
          /\ current_data' = resp.body
          /\ tid' = NextCursor(tid, resp.body)
          /\ exc' = IF ~resp.ok THEN "TypeError"
                    ELSE IF Len(resp.body) = 0 THEN "IndexError" ELSE ""
          /\ pc' = IF resp.ok /\ Len(resp.body) # 0 THEN "trade_loop" ELSE "crashed"
    /\ UNCHANGED <<time_window, trades_api_limit, candle_data, df_candle,
                   candle_oldest_open_time, candle_recent_open_time, df_final,
                   csv_written, upload_attempted>>

\* one iteration of the while loop
TradeLoop ==
    /\ pc = "trade_loop"
    /\ LoopCondition(start_time, end_time, current_data)
    /\ Len(requests) < MaxRequests
    /\ \E resp \in {None} \cup
                    {Json(p) : p \in SincePages(history, tid, trades_api_limit,
                                                contiguous)} :
          /\ requests' = Append(requests,
                                [param |-> "since_tid", value |-> tid,
                                 limit_trades |-> Cell(trades_api_limit)])
          /\ pages' = Append(pages, resp)
          /\ log' = log \o FetchLog(resp)
          /\ current_data' = resp.body
          /\ IF resp.ok
             THEN /\ trade_data' = Extend(trade_data, resp.body)
                  /\ tid' = NextCursor(tid, resp.body)
                  /\ end_time' = NextEndTime(end_time, resp.body)
                  /\ UNCHANGED <<pc, exc>>
             ELSE \* trade_data.extend(None)
                  /\ pc' = "crashed"
                  /\ exc' = "TypeError"
                  /\ UNCHANGED <<trade_data, tid, end_time>>
    /\ UNCHANGED <<time_window, trades_api_limit, candle_data, df_candle,
                   candle_oldest_open_time, candle_recent_open_time, history,
                   anchor_limit, contiguous, start_time, df_final, csv_written,
                   upload_attempted>>

\* the loop condition fails: df_trades is built and returned
TradeReturn ==
    /\ pc = "trade_loop"
    /\ ~LoopCondition(start_time, end_time, current_data)
    /\ pc' = "aggregate"
    /\ UNCHANGED <<exc, log, time_window, trades_api_limit, candle_data, df_candle,
                   candle_oldest_open_time, candle_recent_open_time, history,
                   anchor_limit, contiguous, start_time, end_time, tid,
                   current_data, trade_data, requests, pages, df_final,
                   csv_written, upload_attempted>>

\* df_final = prepare_one_min_candle_data(df_candle, df_trade); the counts are
\* written into df_candle itself
Aggregate ==
    /\ pc = "aggregate"
    /\ df_candle' = Json(SetTradeCounts(df_candle.body, trade_data))
    /\ df_final' = FinalFrame(df_candle'.body)
    /\ pc' = "write_csv"
    /\ UNCHANGED <<exc, log, time_window, trades_api_limit, candle_data,
                   candle_oldest_open_time, candle_recent_open_time, history,
                   anchor_limit, contiguous, start_time, end_time, tid,
                   current_data, trade_data, requests, pages, csv_written,
                   upload_attempted>>

\* df_final.to_csv('candle_min_final.csv', index=False)
WriteCsv ==
    /\ pc = "write_csv"
    /\ csv_written' = TRUE
    /\ pc' = "upload"
    /\ UNCHANGED <<exc, log, time_window, trades_api_limit, candle_data, df_candle,
                   candle_oldest_open_time, candle_recent_open_time, history,
                   anchor_limit, contiguous, start_time, end_time, tid,
                   current_data, trade_data, requests, pages, df_final,
                   upload_attempted>>

\* aws_utils.upload_file_to_s3: True, or False after logging the reason
Upload ==
    /\ pc = "upload"
    /\ upload_attempted' = TRUE
    /\ \E outcome \in {<<>>, <<"Credentials not available">>, <<"An error occurred">>} :
          log' = log \o outcome
    /\ pc' = "done"
    /\ UNCHANGED <<exc, time_window, trades_api_limit, candle_data, df_candle,
                   candle_oldest_open_time, candle_recent_open_time, history,
                   anchor_limit, contiguous, start_time, end_time, tid,
                   current_data, trade_data, requests, pages, df_final,
                   csv_written>>

Next ==
    \/ FetchCandles
    \/ PrepareCandles
    \/ ExtractWindow
    \/ TradeAnchor
    \/ TradeLoop
    \/ TradeReturn
    \/ Aggregate
    \/ WriteCsv
    \/ Upload

Spec == Init /\ [][Next]_vars

----------------------------------------------------------------------------
(* The trade window collector alone: any window on the minute grid, any limit *)

InitCollector ==
    /\ pc = "trade_anchor"
    /\ time_window = 1
    /\ trades_api_limit \in 1..MaxLimit
    /\ exc = ""
    /\ log = <<>>
    /\ candle_data = None
    /\ df_candle = None
    /\ candle_oldest_open_time \in MinuteGrid
    /\ candle_recent_open_time \in MinuteGrid
    /\ candle_oldest_open_time <= candle_recent_open_time
    /\ history = <<>>
    /\ anchor_limit = 1
    /\ contiguous = TRUE
    /\ start_time = 0
    /\ end_time = 0
    /\ tid = 0
    /\ current_data = <<>>
    /\ trade_data = <<>>
    /\ requests = <<>>
    /\ pages = <<>>
    /\ df_final = <<>>
    /\ csv_written = FALSE
    /\ upload_attempted = FALSE

NextCollector ==
    \/ TradeAnchor
    \/ TradeLoop
    \/ TradeReturn

\* the program is sequential: a step that can be taken is taken
FairCollector == InitCollector /\ [][NextCollector]_vars /\ WF_vars(NextCollector)

----------------------------------------------------------------------------
(* The candle builder alone: any raw list, any window size *)

RawLists ==
    {[i \in 1..Len(s) |-> RawRow(s[i])] : s \in SeqsUpTo(TimeGrid, MaxCandles)}

InitCandle ==
    /\ pc = "prepare_candles"
    /\ time_window \in 0..MaxWindow
    /\ trades_api_limit = 1
    /\ exc = ""
    /\ log = <<>>
    /\ candle_data \in {None} \cup {Json(b) : b \in RawLists}
    /\ df_candle = None
    /\ candle_oldest_open_time = 0
    /\ candle_recent_open_time = 0
    /\ history = <<>>
    /\ anchor_limit = 1
    /\ contiguous = TRUE
    /\ start_time = 0
    /\ end_time = 0
    /\ tid = 0
    /\ current_data = <<>>
    /\ trade_data = <<>>
    /\ requests = <<>>
    /\ pages = <<>>
    /\ df_final = <<>>
    /\ csv_written = FALSE
    /\ upload_attempted = FALSE

SpecCandle == InitCandle /\ [][PrepareCandles]_vars

----------------------------------------------------------------------------
(* The aggregator alone: any candle set of the builder, any trade list *)

AggCandleFrames ==
    {prepare_candle_data(Json([i \in 1..Len(s) |-> RawRow(s[i])]), Len(s)) :
        s \in {q \in SeqsUpTo(TimeGrid, MaxCandles) : IsSortedDesc(q)}}

AggTradeLists ==
    {[i \in 1..Len(s) |-> Trade(i, s[i])] : s \in SeqsUpTo(TimeGrid, MaxTrades)}

InitAgg ==
    /\ pc = "aggregate"
    /\ time_window = 1
    /\ trades_api_limit = 1
    /\ exc = ""
    /\ log = <<>>
    /\ candle_data = None
    /\ df_candle \in AggCandleFrames
    /\ candle_oldest_open_time = 0
    /\ candle_recent_open_time = 0
    /\ history = <<>>
    /\ anchor_limit = 1
    /\ contiguous = TRUE
    /\ start_time = 0
    /\ end_time = 0
    /\ tid = 0
    /\ current_data = <<>>
    /\ trade_data \in AggTradeLists
    /\ requests = <<>>
    /\ pages = <<>>
    /\ df_final = <<>>
    /\ csv_written = FALSE
    /\ upload_attempted = FALSE

SpecAgg == InitAgg /\ [][Aggregate]_vars

----------------------------------------------------------------------------
(* Vocabulary of the properties *)

Range(s) == {s[i] : i \in DOMAIN s}

\* prepare_trade_data has returned
Returned == pc \in {"aggregate", "write_csv", "upload", "done"}

RECURSIVE ConcatBodies(_)
ConcatBodies(ps) ==
    IF ps = <<>> THEN <<>> ELSE ConcatBodies(SubSeq(ps, 1, Len(ps) - 1)) \o ps[Len(ps)].body

NoDuplicates(s) == \A i, j \in DOMAIN s : s[i] = s[j] => i = j

\* index of the most recent non-empty page received before request k
LastNonEmptyBefore(k) ==
    CHOOSE j \in 0..(k - 1) :
        /\ j > 0 => Len(pages[j].body) # 0
        /\ \A m \in (j + 1)..(k - 1) : Len(pages[m].body) = 0

IndexPermutations(n) == {p \in [1..n -> 1..n] : \A i, j \in 1..n : p[i] = p[j] => i = j}
Permuted(s, p) == [i \in 1..Len(s) |-> s[p[i]]]

\* the two half-open candle intervals share no instant
Disjoint(a, b) ==
    \/ a.candle_close_time_epoch <= b.candle_open_time_epoch
    \/ b.candle_close_time_epoch <= a.candle_open_time_epoch

StrictlyMonotonic(rows) ==
    \/ \A i \in 1..(Len(rows) - 1) :
          rows[i].candle_open_time_epoch > rows[i + 1].candle_open_time_epoch
    \/ \A i \in 1..(Len(rows) - 1) :
          rows[i].candle_open_time_epoch < rows[i + 1].candle_open_time_epoch

\* consecutive open times are at least one candle length apart
SpacedByCandle(rows) ==
    \/ \A i \in 1..(Len(rows) - 1) :
          rows[i].candle_open_time_epoch >= rows[i + 1].candle_open_time_epoch + CandleMs
    \/ \A i \in 1..(Len(rows) - 1) :
          rows[i].candle_open_time_epoch + CandleMs <= rows[i + 1].candle_open_time_epoch

----------------------------------------------------------------------------
(* C1 *)

\* C1: after prepare_one_min_candle_data every candle's 'No of Trades' is the
\* number of trades of T with open <= timestampms < open + 60000, and the
\* aggregator gives the same counts for every permutation of T.
C1_CountsMatchIntervals ==
    pc = "write_csv" =>
        /\ \A i \in 1..Len(df_final) :
              df_final[i]["No of Trades"] =
                  Cell(Cardinality({j \in 1..Len(trade_data) :
                      /\ df_final[i]["Candle Open Time"] <= trade_data[j].timestampms
                      /\ trade_data[j].timestampms
                             < df_final[i]["Candle Open Time"] + CandleMs}))
        /\ \A p \in IndexPermutations(Len(trade_data)) :
              FinalFrame(SetTradeCounts(df_candle.body, Permuted(trade_data, p)))
                  = df_final

\* a candle with two trades, a trade exactly at that candle's close time, and
\* a trade that no candle contains
C1_Witness ==
    /\ pc = "write_csv"
    /\ \E i \in 1..Len(df_final) :
          /\ df_final[i]["No of Trades"] = Cell(2)
          /\ \E j \in 1..Len(trade_data) :
                trade_data[j].timestampms = df_final[i]["Candle Close Time"]
    /\ \E j \in 1..Len(trade_data) :
          \A i \in 1..Len(df_final) :
              \/ trade_data[j].timestampms < df_final[i]["Candle Open Time"]
              \/ trade_data[j].timestampms >= df_final[i]["Candle Close Time"]

----------------------------------------------------------------------------
(* C7 *)

\* C7: prepare_candle_data returns the first min(N, L) rows of a present raw
\* list in input order, each with close = open + 60000 and the trade count
\* unset, and returns None for an absent raw list.
C7_FirstRowsOfInput ==
    pc = "extract_window" =>
        IF ~candle_data.ok
        THEN df_candle = None
        ELSE /\ df_candle.ok
             /\ Len(df_candle.body) = Min(time_window, Len(candle_data.body))
             /\ \A i \in 1..Len(df_candle.body) :
                   /\ df_candle.body[i].candle_open_time_epoch
                          = candle_data.body[i].candle_open_time_epoch
                   /\ df_candle.body[i].candle_close_time_epoch
                          = candle_data.body[i].candle_open_time_epoch + CandleMs
                   /\ df_candle.body[i].no_of_trades = Unset

\* fewer rows than the window asks for, and all of them come back
C7_Witness ==
    /\ pc = "extract_window"
    /\ candle_data.ok
    /\ Len(candle_data.body) = 1
    /\ time_window = 2
    /\ Len(df_candle.body) = 1
    /\ df_candle.body[1].candle_close_time_epoch = 2 * CandleMs

----------------------------------------------------------------------------
(* C8 *)

\* C8 as stated: whenever the input's open times are strictly monotonic, the
\* intervals of any two distinct output candles do not overlap.
C8_Original ==
    (pc = "extract_window" /\ df_candle.ok /\ StrictlyMonotonic(candle_data.body)) =>
        \A i, j \in 1..Len(df_candle.body) :
            i # j => Disjoint(df_candle.body[i], df_candle.body[j])

\* C8 amended: whenever the input's open times are strictly monotonic and
\* consecutive open times are at least 60000 ms apart, the intervals of any two
\* distinct output candles do not overlap, so no timestamp lies in two candles.
C8_DisjointWhenSpaced ==
    (pc = "extract_window" /\ df_candle.ok /\ StrictlyMonotonic(candle_data.body)
        /\ SpacedByCandle(candle_data.body)) =>
        /\ \A i, j \in 1..Len(df_candle.body) :
              i # j => Disjoint(df_candle.body[i], df_candle.body[j])
        /\ \A ts \in TimeGrid :
              Cardinality({i \in 1..Len(df_candle.body) :
                  InInterval(Trade(1, ts), df_candle.body[i])}) <= 1

\* two output candles of adjacent minutes
C8_Witness ==
    /\ pc = "extract_window"
    /\ df_candle.ok
    /\ Len(df_candle.body) = 2
    /\ StrictlyMonotonic(candle_data.body)
    /\ SpacedByCandle(candle_data.body)
    /\ df_candle.body[1].candle_open_time_epoch
           = df_candle.body[2].candle_open_time_epoch + CandleMs

----------------------------------------------------------------------------
(* C2 *)

\* C2: against a finite well-formed trade endpoint prepare_trade_data, once
\* called, ends (it returns, or an exception ends it) after finitely many
\* page requests.
C2_CollectorTerminates ==
    (pc = "trade_anchor") ~> (pc \in {"aggregate", "crashed"})

\* the collector returned after the anchor page and at least two more requests
C2_Witness ==
    /\ pc = "aggregate"
    /\ Len(requests) >= 3
    /\ \A k \in 1..Len(pages) : pages[k].ok

----------------------------------------------------------------------------
(* C3 *)

\* C3: when the anchor request returns zero trades the run does not crash,
\* and the final output has trade count 0 for every candle.
C3_Original ==
    (Len(pages) >= 1 /\ pages[1] = Json(<<>>)) =>
        /\ pc # "crashed"
        /\ pc = "done" => \A i \in 1..Len(df_final) : df_final[i]["No of Trades"] = Cell(0)

----------------------------------------------------------------------------
(* C4 *)

\* C4: when the candle fetch returns the failure sentinel, the run gets no
\* further than the window extraction, where it aborts with the reason logged;
\* no trade request is issued, no CSV is written and no upload is attempted.
C4_AbortBeforeTrades ==
    (pc # "fetch_candles" /\ ~candle_data.ok) =>
        /\ pc \in {"prepare_candles", "extract_window", "crashed"}
        /\ requests = <<>>
        /\ pages = <<>>
        /\ ~csv_written
        /\ ~upload_attempted
        /\ pc = "crashed" => "No data in candle dataframe" \in Range(log)

\* the run has aborted on the absent candle frame
C4_Witness ==
    /\ pc = "crashed"
    /\ ~candle_data.ok
    /\ exc = "AttributeError"
    /\ "Request failed" \in Range(log)

----------------------------------------------------------------------------
(* C5 *)

\* C5: when prepare_trade_data returns against a well-formed endpoint (here
\* even one that pages without gaps, oldest trades first, for a window of
\* more than one candle), its output holds every trade of the history with
\* oldest_open <= timestampms <= newest_open.
C5_Original ==
    (Returned /\ contiguous /\ candle_oldest_open_time < candle_recent_open_time) =>
        \A i \in DOMAIN history :
            (candle_oldest_open_time <= history[i]
                /\ history[i] <= candle_recent_open_time)
            => Trade(i, history[i]) \in Range(trade_data)

----------------------------------------------------------------------------
(* C6 *)

\* C6: a trade request that fails (None from fetch_data) does not make the
\* collector raise.
C6_Original ==
    (Len(pages) >= 1 /\ ~pages[Len(pages)].ok) => pc # "crashed"

----------------------------------------------------------------------------
(* C9 *)

\* C9: every page request after the anchor is issued only while the boundary
\* timestamp (timestampms of the first trade of the most recent non-empty
\* page) is below newest_open_time and the last page was non-empty (stated
\* for the runs in which no request failed).
C9_Original ==
    (\A k \in 1..Len(pages) : pages[k].ok) =>
        \A k \in 2..Len(requests) :
            /\ LastNonEmptyBefore(k) > 0
            /\ pages[LastNonEmptyBefore(k)].body[1].timestampms
                   < candle_recent_open_time
            /\ Len(pages[k - 1].body) # 0

----------------------------------------------------------------------------
(* C10 *)

\* C10: the returned trade set is the concatenation, in request order, of
\* every page received; every request after the anchor carries as since_tid
\* the tid of the first trade of the most recent non-empty page; and no trade
\* occurs twice in the returned set.
C10_ConcatenationOfPages ==
    /\ \A k \in 2..Len(requests) :
          /\ requests[k].param = "since_tid"
          /\ LastNonEmptyBefore(k) > 0
          /\ requests[k].value = pages[LastNonEmptyBefore(k)].body[1].tid
    /\ Returned =>
          /\ trade_data = ConcatBodies(pages)
          /\ NoDuplicates(trade_data)

\* three pages received, the second one with two trades
C10_Witness ==
    /\ Returned
    /\ Len(pages) >= 3
    /\ Len(pages[2].body) = 2
    /\ Len(trade_data) >= 3

====
